---------------------------- MODULE Spec2Model ----------------------------
(***************************************************************************)
(* A model of two parts of ReacType:                                       *)
(*                                                                         *)
(*   - the HTML panel item (app/src/components/left/HTMLItem.tsx): the     *)
(*     click handler that adds a child to the local store and relays the   *)
(*     intent to the room, and the delete-all-instances modal;             *)
(*   - the marketplace controller (server/controllers/marketplace-         *)
(*     Controller): getPublishedProjects, publishProject,                  *)
(*     unpublishProject and cloneProject over the Projects collection.     *)
(*                                                                         *)
(* The two parts share no state.  Spec is the panel item, MarketSpec the   *)
(* marketplace controller.                                                 *)
(***************************************************************************)
EXTENDS Integers, Sequences, FiniteSets, TLC

VARIABLES
    \* ---- client (HTMLItem.tsx) ----
    roomCode,    \* store.roomSlice.roomCode
    connected,   \* whether the socket of the Event Relay is connected
    store,       \* the Project Tree Store: the children added, in order
    trace,       \* the effects the handlers performed, in program order
    wire,        \* the events that reached the relay server
    modal,       \* modal[id]: the useState `modal` of the item with that id:
                 \* <<>> for null, <<deleteID>> for the modal of deleteID
    gestures,    \* the user's gestures so far, each with the room it saw
    \* ---- server (marketplaceController) ----
    projects,    \* the Projects collection: _id -> stored document
    now,         \* the clock Date.now() reads
    http,        \* what the middleware did with the last request
    served       \* the number of requests served

clientVars == <<roomCode, connected, store, trace, wire, modal, gestures>>
serverVars == <<projects, now, http, served>>
vars == <<roomCode, connected, store, trace, wire, modal, gestures,
          projects, now, http, served>>

-----------------------------------------------------------------------------
(***************************************************************************)
(* Values shared by both parts.                                            *)
(***************************************************************************)

\* JavaScript's null.
Null == "null"

Range(s) == {s[i] : i \in 1..Len(s)}

-----------------------------------------------------------------------------
(***************************************************************************)
(* The HTML panel item.                                                    *)
(***************************************************************************)

\* The number of gestures a behaviour holds.
MaxGestures == 3

\* `id <= 20` / `id > 20` in the render.
DeleteThreshold == 20

\* The catalog of element types shown in the panel: ids on both sides of
\* the threshold.
Catalog == {DeleteThreshold, DeleteThreshold + 1}

\* The values store.roomSlice.roomCode takes: null and '' when no room is
\* active, a code otherwise.
RoomTokens == {"r1", "r2"}
RoomCodes == {Null, ""} \cup RoomTokens

\* JavaScript truthiness of a room code: `if (roomCode)`.
Truthy(code) == code # Null /\ code # ""

\* handleClick's childData.
ChildData(id) ==
    [type |-> "HTML Element",
     typeId |-> id,
     childId |-> Null,
     contextParam |-> [allContext |-> <<>>]]

\* dispatch(addChild(childData)): the effect, and the store after it.
DispatchAddChild(g, payload) ==
    [op |-> "dispatch", action |-> "addChild", gesture |-> g,
     roomCode |-> Null, payload |-> payload]

addChild(tree, payload) == Append(tree, payload)

\* emitEvent(event, roomCode, payload): the call, and what reaches the
\* server (nothing when the channel is disconnected).
EmitCall(g, event, code, payload) ==
    [op |-> "emit", action |-> event, gesture |-> g,
     roomCode |-> code, payload |-> payload]

emitEvent(w, isConnected, event, code, payload) ==
    IF isConnected
    THEN Append(w, [event |-> event, roomCode |-> code, payload |-> payload])
    ELSE w

\* handleDelete(deleteID), the prop: the effect, and the store after it.
HandleDeleteCall(g, id) ==
    [op |-> "handleDelete", action |-> "deleteAll", gesture |-> g,
     roomCode |-> Null, payload |-> [typeId |-> id]]

deleteAll(tree, id) == SelectSeq(tree, LAMBDA n : n.typeId # id)

\* handleClick without its `if (roomCode)` guard.
handleClickEffects_NoGuard(g, id, code) ==
    <<DispatchAddChild(g, ChildData(id)),
      EmitCall(g, "addChildAction", code, ChildData(id))>>

\* handleClick relaying first and applying locally afterwards.
handleClickEffects_EmitFirst(g, id, code) ==
    (IF Truthy(code)
     THEN <<EmitCall(g, "addChildAction", code, ChildData(id))>>
     ELSE <<>>)
    \o <<DispatchAddChild(g, ChildData(id))>>

\* handleClick dispatching addChild twice.
handleClickEffects_Twice(g, id, code) ==
    <<DispatchAddChild(g, ChildData(id)), DispatchAddChild(g, ChildData(id))>>
    \o (IF Truthy(code)
        THEN <<EmitCall(g, "addChildAction", code, ChildData(id))>>
        ELSE <<>>)

\* The effects of handleClick in the order the code performs them
\* (g is the gesture that runs it).
handleClickEffects(g, id, code) ==
    <<DispatchAddChild(g, ChildData(id))>>
    \o (IF Truthy(code)
        THEN <<EmitCall(g, "addChildAction", code, ChildData(id))>>
        ELSE <<>>)

\* The state after a sequence of effects, applied in order.
RECURSIVE ApplyEffects(_, _, _, _)
ApplyEffects(effs, tree, w, isConnected) ==
    IF effs = <<>>
    THEN [store |-> tree, wire |-> w]
    ELSE LET e == Head(effs) IN
         CASE e.op = "dispatch" ->
                ApplyEffects(Tail(effs), addChild(tree, e.payload), w,
                             isConnected)
           [] e.op = "emit" ->
                ApplyEffects(Tail(effs), tree,
                             emitEvent(w, isConnected, e.action, e.roomCode,
                                       e.payload),
                             isConnected)
           [] e.op = "handleDelete" ->
                ApplyEffects(Tail(effs), deleteAll(tree, e.payload.typeId), w,
                             isConnected)

\* What the render offers for an item: the item element itself, and for a
\* custom element the delete button nested in it.
ItemOffered(id) == id <= DeleteThreshold \/ id > DeleteThreshold

\* The delete button rendered from the threshold on (`>=` for `>`).
DeleteButtonOffered_Inclusive(id) == id >= DeleteThreshold

DeleteButtonOffered(id) == id > DeleteThreshold

\* A gesture runs handlers, which perform effects and may set the modal.
Gesture(kind, id, effs, modalAfter) ==
    /\ Len(gestures) < MaxGestures
    /\ gestures' = Append(gestures, [kind |-> kind, id |-> id,
                                     roomCode |-> roomCode])
    /\ trace' = trace \o effs
    /\ LET after == ApplyEffects(effs, store, wire, connected) IN
         /\ store' = after.store
         /\ wire' = after.wire
    /\ modal' = [modal EXCEPT ![id] = modalAfter]
    /\ UNCHANGED <<roomCode, connected>>
    /\ UNCHANGED serverVars

\* The handlers a click on the delete button runs: the button's own
\* onClick, then (the click bubbles) the onClick of the item element the
\* button is nested in.
deleteButtonEffects(g, id, code) == handleClickEffects(g, id, code)

\* A click on the item element (not on its delete button):
\* onClick={() => handleClick()}.
ClickItem(id) ==
    /\ ItemOffered(id)
    /\ Gesture("clickItem", id,
               handleClickEffects(Len(gestures) + 1, id, roomCode),
               modal[id])

\* A click on the 'X' button of a custom element:
\* onClick={() => deleteAllInstances(id)} sets the modal.
ClickDeleteButton(id) ==
    /\ DeleteButtonOffered(id)
    /\ Gesture("clickDelete", id,
               deleteButtonEffects(Len(gestures) + 1, id, roomCode),
               <<id>>)

\* A click on the text 'Yes, delete all instances': the text's closeModal,
\* then the list item's handleDelete(deleteID).
ClickYesText(id) ==
    /\ modal[id] # <<>>
    /\ Gesture("clickYes", id,
               <<HandleDeleteCall(Len(gestures) + 1, modal[id][1])>>, <<>>)

\* A click on the 'Yes' list item beside its text: handleDelete(deleteID)
\* alone, the modal stays.
ClickYesItem(id) ==
    /\ modal[id] # <<>>
    /\ Gesture("clickYes", id,
               <<HandleDeleteCall(Len(gestures) + 1, modal[id][1])>>, modal[id])

\* A click on 'No, do not delete element' (item or text): closeModal.
ClickNo(id) ==
    /\ modal[id] # <<>>
    /\ Gesture("clickNo", id, <<>>, <<>>)

\* The Room Session: joining or creating a room, and leaving it.
JoinRoom(code) ==
    /\ code \in RoomTokens
    /\ roomCode # code
    /\ roomCode' = code
    /\ UNCHANGED <<connected, store, trace, wire, modal, gestures>>
    /\ UNCHANGED serverVars

LeaveRoom(code) ==
    /\ code \in {Null, ""}
    /\ roomCode # code
    /\ roomCode' = code
    /\ UNCHANGED <<connected, store, trace, wire, modal, gestures>>
    /\ UNCHANGED serverVars

\* The channel of the Event Relay connects and disconnects.
SetConnected(b) ==
    /\ connected # b
    /\ connected' = b
    /\ UNCHANGED <<roomCode, store, trace, wire, modal, gestures>>
    /\ UNCHANGED serverVars

\* The panel before any gesture: no room, no modal, an empty tree.
ClientInit ==
    /\ roomCode = Null
    /\ connected = TRUE
    /\ store = <<>>
    /\ trace = <<>>
    /\ wire = <<>>
    /\ modal = [id \in Catalog |-> <<>>]
    /\ gestures = <<>>

Next ==
    \/ \E id \in Catalog : ClickItem(id)
    \/ \E id \in Catalog : ClickDeleteButton(id)
    \/ \E id \in Catalog : ClickYesText(id)
    \/ \E id \in Catalog : ClickYesItem(id)
    \/ \E id \in Catalog : ClickNo(id)
    \/ \E code \in RoomCodes : JoinRoom(code)
    \/ \E code \in RoomCodes : LeaveRoom(code)
    \/ \E b \in BOOLEAN : SetConnected(b)

-----------------------------------------------------------------------------
(***************************************************************************)
(* The marketplace controller.                                             *)
(***************************************************************************)

\* The number of documents the Projects collection holds at most.
MaxDocs == 2

\* The last value of the clock.
MaxTime == 1

\* The number of requests a behaviour holds.
MaxRequests == 3

\* An _id is modelled by an integer: a positive integer stands for a
\* 24-hex ObjectId string, 0 for a string that is no ObjectId (the empty
\* string '' included).  The store gives the documents it creates the ids
\* 1, 2, ... in turn; ForeignId is an ObjectId the store never generates.
\* A request carries a string that is no ObjectId, the _id of a stored
\* document or the foreign ObjectId.
ObjectIds == 1..MaxDocs
ForeignId == MaxDocs + 1
InvalidIds == {0}
RequestIds == InvalidIds \cup DOMAIN projects \cup {ForeignId}

\* isValidObjectId taking no _id for valid.
isValidObjectId_Never(id) == FALSE

\* mongoose.isValidObjectId(_id).
isValidObjectId(id) == id >= 1

\* Whether the _id of a query filter casts to an ObjectId (the query fails
\* with a CastError otherwise).
CastsToObjectId(id) == id >= 1

\* The session identities: req.cookies.ssid and req.cookies.username.
Users ==
    {[ssid |-> "u1", username |-> "alice"],
     [ssid |-> "u2", username |-> "bob"]}

\* The request bodies of publishProject: { project, comments, name }.
Bodies ==
    {[project |-> [tree |-> "t1", _id |-> "", published |-> FALSE],
      comments |-> <<>>, name |-> "n1"],
     [project |-> [tree |-> "t2"],
      comments |-> <<"nice">>, name |-> "n2"]}

\* The errors a call of the backing store fails with.
StoreErrors == {"MongoNetworkError: connection closed"}
CastError == "CastError: Cast to ObjectId failed"
NullTypeError == "TypeError: Cannot read properties of null"

\* How the store calls of a request go: no failure (<<>>), or the error
\* of the call that fails.  A failing call of unpublishProject passes the
\* error to its callback or throws it; cloneProject makes two calls.
NoFault == <<>>
Faults == {NoFault} \cup {<<e>> : e \in StoreErrors}
UnpublishFaults ==
    {[fault |-> NoFault, thrown |-> FALSE]}
    \cup {[fault |-> <<e>>, thrown |-> t] : e \in StoreErrors, t \in BOOLEAN}
CloneFaults ==
    {[find |-> NoFault, create |-> NoFault]}
    \cup {[find |-> <<e>>, create |-> NoFault] : e \in StoreErrors}
    \cup {[find |-> NoFault, create |-> <<e>>] : e \in StoreErrors}

\* An object without some of its keys (`delete obj.k`), and with one set.
Omit(obj, keys) == [k \in DOMAIN obj \ keys |-> obj[k]]
With(obj, key, v) ==
    [k \in DOMAIN obj \cup {key} |-> IF k = key THEN v ELSE obj[k]]

\* The empty collection.
NoDocs == [i \in {} |-> Null]

\* The _id the store gives a created document.
FreshId(coll) == Cardinality(DOMAIN coll \cap ObjectIds) + 1

\* Projects.find({ published: true }).
FindPublished(coll) == {coll[i] : i \in {j \in DOMAIN coll : coll[j].published}}

\* A document with the fields of an update set.
ApplyUpdate(doc, update) ==
    [k \in DOMAIN doc |-> IF k \in DOMAIN update THEN update[k] ELSE doc[k]]

\* Projects.create(fields): the collection with the new document.
\* A document that was never forked has no `forked`: the empty tag <<>>.
Create(coll, id, fields) ==
    [i \in DOMAIN coll \cup {id} |->
        IF i = id
        THEN ApplyUpdate([_id |-> id, project |-> <<>>, createdAt |-> 0,
                          published |-> FALSE, comments |-> <<>>,
                          name |-> "", userId |-> "", username |-> "",
                          forked |-> <<>>],
                         fields)
        ELSE coll[i]]

\* The arguments next is called with: nothing, or an error object.
NoArg == [isError |-> FALSE, log |-> <<>>, message |-> [err |-> <<>>]]
ErrorArg(log, message) ==
    [isError |-> TRUE, log |-> log, message |-> [err |-> message]]

\* The error objects of the four middlewares.  A template literal is the
\* sequence of its parts.
GetPublishedError(err) ==
    ErrorArg(<<"Error in marketplaceController.getPublishedProjects: ", err>>,
             <<"Error in marketplaceController.getPublishedProjects, check server logs for details">>)

PublishError(err) ==
    ErrorArg(<<"Error in marketplaceController.publishProject">>,
             <<"Error in marketplaceController.publishProject, check server logs for details">>)

UnpublishError(err) ==
    ErrorArg(<<"Error in marketplaceController.unpublishProject: ", err>>,
             <<"Error in marketplaceController.unpublishProject, check server logs for details">>)

UnpublishThrown(err) ==
    ErrorArg(<<"Error in marketplaceController.unpublishProject">>,
             <<"Error in marketplaceController.unpublishProject, userId of project does not match cookies.ssid">>)

\* cloneProject's error with the error's text in the user-facing message.
CloneError_Leaky(err) ==
    ErrorArg(<<"Error in marketplaceController.cloneProject: ", err>>,
             <<"Error in marketplaceController.cloneProject: ", err>>)

CloneError(err) ==
    ErrorArg(<<"Error in marketplaceController.cloneProject: ", err>>,
             <<"Error in marketplaceController.cloneProject, check server logs for details">>)

\* What a middleware did with a request: the _id the request carried, the
\* error of the store call that failed (none: <<>>), the res.locals key it
\* set (none: <<>>) and the calls of next it made.
Respond(op, id, failure, locals, nextCalls) ==
    /\ served < MaxRequests
    /\ served' = served + 1
    /\ http' = [op |-> op, id |-> id, failure |-> failure,
                locals |-> locals, next |-> nextCalls]

Local(key, value) == <<[key |-> key, value |-> value]>>

\* getPublishedProjects.
getPublishedProjects(fault) ==
    /\ IF fault = NoFault
       THEN Respond("getPublishedProjects", 0, NoFault,
                    Local("publishedProjects", FindPublished(projects)),
                    <<NoArg>>)
       ELSE Respond("getPublishedProjects", 0, fault, <<>>,
                    <<GetPublishedError(fault[1])>>)
    /\ UNCHANGED <<projects, now>>
    /\ UNCHANGED clientVars

\* The update document of publishProject.
PublishFields(body, user, createdAt) ==
    [project |-> Omit(body.project, {"published", "_id"}),
     createdAt |-> createdAt,
     published |-> TRUE,
     comments |-> body.comments,
     name |-> body.name,
     userId |-> user.ssid,
     username |-> user.username]

\* publishProject's store call: findOneAndUpdate({ _id }, ..., { upsert:
\* true, new: true }) for a valid _id, create otherwise.
PublishStore(coll, id, body, user, createdAt) ==
    IF isValidObjectId(id)
    THEN IF id \in DOMAIN coll
         THEN [coll EXCEPT ![id] =
                  ApplyUpdate(coll[id], PublishFields(body, user, createdAt))]
         ELSE Create(coll, id, PublishFields(body, user, createdAt))
    ELSE Create(coll, FreshId(coll), PublishFields(body, user, createdAt))

\* The document publishProject's store call returns.
PublishedId(coll, id) == IF isValidObjectId(id) THEN id ELSE FreshId(coll)

\* publishProject.
publishProject(id, body, user, fault) ==
    /\ IF fault = NoFault
       THEN /\ id \in DOMAIN projects \/ Cardinality(DOMAIN projects) < MaxDocs
            /\ projects' = PublishStore(projects, id, body, user, now)
            /\ Respond("publishProject", id, NoFault,
                       Local("publishedProject",
                             projects'[PublishedId(projects, id)]),
                       <<NoArg>>)
       ELSE /\ UNCHANGED projects
            /\ Respond("publishProject", id, fault, <<>>,
                       <<PublishError(fault[1])>>)
    /\ UNCHANGED now
    /\ UNCHANGED clientVars

\* The filter of unpublishProject without the owner.
UnpublishMatches_AnyOwner(doc, id, userId) == doc._id = id

\* The filter of unpublishProject: { _id, userId }.
UnpublishMatches(doc, id, userId) == doc._id = id /\ doc.userId = userId

\* unpublishProject.  The store call passes its error or its result to the
\* callback, or throws (thrown = TRUE) into the catch.
unpublishProject(id, user, fault, thrown) ==
    /\ LET found == {i \in DOMAIN projects :
                        UnpublishMatches(projects[i], id, user.ssid)}
       IN CASE fault # NoFault /\ thrown ->
                 /\ UNCHANGED projects
                 /\ Respond("unpublishProject", id, fault, <<>>,
                            <<UnpublishThrown(fault[1])>>)
            [] fault # NoFault /\ ~thrown ->
                 /\ UNCHANGED projects
                 /\ Respond("unpublishProject", id, fault, <<>>,
                            <<UnpublishError(fault[1])>>)
            [] fault = NoFault /\ ~CastsToObjectId(id) ->
                 /\ UNCHANGED projects
                 /\ Respond("unpublishProject", id,
                            <<CastError>>, <<>>,
                            <<UnpublishError(CastError)>>)
            [] fault = NoFault /\ CastsToObjectId(id) /\ found = {} ->
                 /\ UNCHANGED projects
                 /\ Respond("unpublishProject", id, NoFault,
                            <<>>, <<UnpublishError(Null)>>)
            [] OTHER ->
                 LET i == CHOOSE i \in found : TRUE IN
                 /\ projects' = [projects EXCEPT ![i].published = FALSE]
                 /\ Respond("unpublishProject", id, NoFault,
                            Local("unpublishedProject", projects'[i]),
                            <<NoArg>>)
    /\ UNCHANGED now
    /\ UNCHANGED clientVars

\* cloneProject's document with the provenance tag taken after the switch
\* to the cloning username.
ClonedProject_TagAfterSwitch(original, user, createdAt) ==
    Omit([original EXCEPT
             !.userId = user.ssid,
             !.project = With(original.project, "forked", TRUE),
             !.published = FALSE,
             !.forked = <<"Forked from ", user.username>>,
             !.username = user.username,
             !.createdAt = createdAt],
         {"_id"})

\* cloneProject's updatedProject (its _id is given by the store).
ClonedProject(original, user, createdAt) ==
    Omit([original EXCEPT
             !.userId = user.ssid,
             !.project = With(original.project, "forked", TRUE),
             !.published = FALSE,
             !.forked = <<"Forked from ", original.username>>,
             !.username = user.username,
             !.createdAt = createdAt],
         {"_id"})

\* cloneProject.  findFault and createFault are how its two store calls go.
cloneProject(docId, user, findFault, createFault) ==
    /\ CASE findFault # NoFault ->
              /\ UNCHANGED projects
              /\ Respond("cloneProject", docId, findFault, <<>>,
                         <<CloneError(findFault[1])>>)
         [] findFault = NoFault /\ ~CastsToObjectId(docId) ->
              /\ UNCHANGED projects
              /\ Respond("cloneProject", docId, <<CastError>>,
                         <<>>, <<CloneError(CastError)>>)
         [] findFault = NoFault /\ CastsToObjectId(docId)
                                /\ docId \notin DOMAIN projects ->
              /\ UNCHANGED projects
              /\ Respond("cloneProject", docId,
                         <<NullTypeError>>, <<>>,
                         <<CloneError(NullTypeError)>>)
         [] OTHER ->
              IF createFault # NoFault
              THEN /\ UNCHANGED projects
                   /\ Respond("cloneProject", docId,
                              createFault, <<>>,
                              <<CloneError(createFault[1])>>)
              ELSE /\ Cardinality(DOMAIN projects) < MaxDocs
                   /\ projects' =
                        Create(projects, FreshId(projects),
                               ClonedProject(projects[docId], user, now))
                   /\ Respond("cloneProject", docId, NoFault,
                              Local("clonedProject",
                                    projects'[FreshId(projects)]),
                              <<NoArg>>)
    /\ UNCHANGED now
    /\ UNCHANGED clientVars

\* The marketplace before any request: an empty collection.
ServerIdle ==
    /\ projects = NoDocs
    /\ now = 0
    /\ http = [op |-> "none"]
    /\ served = 0

\* Time passes.
Tick ==
    /\ now < MaxTime
    /\ now' = now + 1
    /\ UNCHANGED <<projects, http, served>>
    /\ UNCHANGED clientVars

MarketNext ==
    \/ \E fault \in Faults : getPublishedProjects(fault)
    \/ \E id \in RequestIds, body \in Bodies, user \in Users, fault \in Faults :
          publishProject(id, body, user, fault)
    \/ \E id \in RequestIds, user \in Users, f \in UnpublishFaults :
          unpublishProject(id, user, f.fault, f.thrown)
    \/ \E docId \in RequestIds, user \in Users, f \in CloneFaults :
          cloneProject(docId, user, f.find, f.create)
    \/ Tick

-----------------------------------------------------------------------------
(***************************************************************************)
(* The specifications.                                                     *)
(***************************************************************************)

Init == ClientInit /\ ServerIdle

\* The panel item under the user's gestures.
Spec == Init /\ [][Next]_vars

\* The marketplace controller under requests.
MarketSpec == Init /\ [][MarketNext]_vars

-----------------------------------------------------------------------------
(***************************************************************************)
(* Properties of the HTML panel item.                                      *)
(***************************************************************************)

\* The places in the trace of the effects of kind op that gesture g caused.
EffectsOf(g, op) ==
    {i \in DOMAIN trace : trace[i].gesture = g /\ trace[i].op = op}

\* The gestures whose click reaches the item element's onClick.
ItemClicks == {g \in DOMAIN gestures : gestures[g].kind = "clickItem"}

\* C1: a click made while the room code is null or empty forwards nothing to
\* the Event Relay; every emit is an 'addChildAction' caused by a click made
\* while the room code was non-null, and carries the room code of that click;
\* nothing else ever reaches the relay server.
C1_RelayOnlyInRoom ==
    /\ \A g \in DOMAIN gestures :
         gestures[g].roomCode \in {Null, ""} => EffectsOf(g, "emit") = {}
    /\ \A i \in DOMAIN trace :
         trace[i].op = "emit" =>
           /\ trace[i].action = "addChildAction"
           /\ gestures[trace[i].gesture].kind \in {"clickItem", "clickDelete"}
           /\ gestures[trace[i].gesture].roomCode # Null
           /\ trace[i].roomCode = gestures[trace[i].gesture].roomCode
    /\ \A k \in DOMAIN wire : wire[k].roomCode \notin {Null, ""}

\* C1's case: after a click relayed in room r1 the client left the room,
\* clicked again, joined r2 and clicked there.
C1_Witness ==
    \E g1, g2, g3 \in ItemClicks :
        /\ g1 < g2 /\ g2 < g3
        /\ gestures[g1].roomCode = "r1" /\ EffectsOf(g1, "emit") # {}
        /\ gestures[g2].roomCode \in {Null, ""}
        /\ gestures[g3].roomCode = "r2" /\ EffectsOf(g3, "emit") # {}

\* The place of the last handleDelete of typeId in the trace (0 if none).
LastDelete(typeId) ==
    LET ds == {i \in DOMAIN trace :
                 trace[i].op = "handleDelete" /\ trace[i].payload.typeId = typeId}
    IN IF ds = {} THEN 0 ELSE CHOOSE i \in ds : \A j \in ds : j <= i

\* C2: every click applies addChild to the local store, room or no room; an
\* emit is always preceded, within the same click, by the local apply of the
\* same payload; and the local store holds every child added since the last
\* delete of its type, whatever reached the relay.
C2_LocalFirst ==
    /\ \A g \in ItemClicks : EffectsOf(g, "dispatch") # {}
    /\ \A i \in DOMAIN trace :
         trace[i].op = "emit" =>
           \E j \in 1..(i - 1) :
              /\ trace[j].op = "dispatch"
              /\ trace[j].gesture = trace[i].gesture
              /\ trace[j].payload = trace[i].payload
    /\ \A id \in Catalog :
         Cardinality({k \in DOMAIN store : store[k].typeId = id})
           = Cardinality({i \in DOMAIN trace :
                            /\ trace[i].op = "dispatch"
                            /\ trace[i].payload.typeId = id
                            /\ i > LastDelete(id)})

\* C2's case: a click in a room while the channel was disconnected: the emit
\* was attempted and dropped, and the store holds the child.
C2_Witness ==
    \E g \in ItemClicks :
        /\ EffectsOf(g, "emit") # {}
        /\ wire = <<>>
        /\ \E k \in DOMAIN store : store[k].typeId = gestures[g].id

\* C7: a click on an item causes exactly one dispatch, of addChild with the
\* payload {type: 'HTML Element', typeId: id, childId: null,
\* contextParam: {allContext: []}}, and, when a room is active, exactly one
\* emit, of 'addChildAction' with that same payload; no emit otherwise.
C7_OneIntentPerClick ==
    \A g \in ItemClicks :
        LET ds == EffectsOf(g, "dispatch")
            es == EffectsOf(g, "emit")
        IN /\ Cardinality(ds) = 1
           /\ \A i \in ds :
                /\ trace[i].action = "addChild"
                /\ trace[i].payload =
                     [type |-> "HTML Element", typeId |-> gestures[g].id,
                      childId |-> "null",
                      contextParam |-> [allContext |-> <<>>]]
           /\ Cardinality(es) =
                (IF gestures[g].roomCode \in {Null, ""} THEN 0 ELSE 1)
           /\ \A i \in es : \A j \in ds :
                /\ trace[i].action = "addChildAction"
                /\ trace[i].payload = trace[j].payload

\* C7's case: one click in a room and one click outside any room.
C7_Witness ==
    \E g1, g2 \in ItemClicks :
        /\ gestures[g1].roomCode \in RoomTokens
        /\ gestures[g2].roomCode = Null
        /\ Len(trace) = 3

\* C8: the delete button is offered exactly for the ids above 20; an item
\* at or below 20 never has a delete confirmation open, is never the subject
\* of handleDelete and never sees a delete gesture; every item, on either
\* side, can be added by a click.
C8_DeleteOnlyAboveThreshold ==
    /\ \A id \in Catalog :
         id <= 20 =>
           /\ modal[id] = <<>>
           /\ \A i \in DOMAIN trace :
                trace[i].op = "handleDelete" => trace[i].payload.typeId # id
           /\ \A g \in DOMAIN gestures :
                gestures[g].id = id => gestures[g].kind = "clickItem"
    /\ Len(gestures) < MaxGestures =>
         \A id \in Catalog :
            /\ (ENABLED ClickDeleteButton(id)) <=> id > 20
            /\ ENABLED ClickItem(id)

\* C8's case: the built-in item 20 and the custom item 21 were both added
\* by a click, and the custom item went through the delete confirmation.
C8_Witness ==
    /\ \E g \in ItemClicks : gestures[g].id = 20
    /\ \E g \in DOMAIN gestures :
         gestures[g].id = 21 /\ gestures[g].kind = "clickDelete"
    /\ \E i \in DOMAIN trace :
         trace[i].op = "handleDelete" /\ trace[i].payload.typeId = 21

\* C10: a click on the delete button only opens the confirmation: it
\* dispatches nothing and emits nothing; and handleDelete runs only on the
\* 'Yes' choice.
C10_DeleteButtonOnlyOpensModal ==
    /\ \A g \in DOMAIN gestures :
         gestures[g].kind = "clickDelete" =>
           EffectsOf(g, "dispatch") = {} /\ EffectsOf(g, "emit") = {}
    /\ \A i \in DOMAIN trace :
         trace[i].op = "handleDelete" =>
           gestures[trace[i].gesture].kind = "clickYes"

-----------------------------------------------------------------------------
(***************************************************************************)
(* Properties of the marketplace controller.                               *)
(***************************************************************************)

\* The last request was served without an error: next was called once,
\* with no argument.
Succeeded(h) == h.next = <<NoArg>>

\* The last request failed: next was called once, with an error object.
Failed(h) == Len(h.next) = 1 /\ h.next[1].isError

\* The _id of the request a step serves, if the step serves a request of
\* the middleware op (no _id otherwise).
Served(op) ==
    IF served' # served /\ http'.op = op THEN {http'.id} ELSE {}

\* C3: unpublishProject with the _id of a stored project and the ssid of
\* another user than its owner fails: next receives an error object,
\* res.locals.unpublishedProject is not set and the collection is unchanged.
\* unpublishProject changes a document only when the ssid is its userId,
\* and then only its published flag, to false.
C3_UnpublishOwnerOnly ==
    [][\A id \in Served("unpublishProject"), user \in Users,
          f \in UnpublishFaults :
          unpublishProject(id, user, f.fault, f.thrown) =>
            /\ DOMAIN projects' = DOMAIN projects
            /\ (id \in DOMAIN projects /\ projects[id].userId # user.ssid) =>
                 /\ projects' = projects
                 /\ Failed(http')
                 /\ http'.locals = <<>>
            /\ \A i \in DOMAIN projects :
                 projects'[i] # projects[i] =>
                   /\ i = id
                   /\ projects[i].userId = user.ssid
                   /\ projects'[i] = [projects[i] EXCEPT !.published = FALSE]
            /\ (/\ f.fault = NoFault
                /\ id \in DOMAIN projects
                /\ projects[id].userId = user.ssid) =>
                 /\ ~projects'[id].published
                 /\ Succeeded(http')
                 /\ http'.locals = <<[key |-> "unpublishedProject",
                                      value |-> projects'[id]]>>
      ]_vars

\* C3's case: the store call of an unpublishProject on the _id of a stored,
\* published project found nothing (the ssid was not the owner's): the
\* request failed and the project is still published.
C3_Witness ==
    /\ http.op = "unpublishProject"
    /\ http.id \in DOMAIN projects
    /\ http.failure = NoFault
    /\ Failed(http)
    /\ http.locals = <<>>
    /\ projects[http.id].published

\* C4: publishProject with the _id of a stored project and the ssid of
\* another user than its owner fails and leaves the collection unchanged.
C4_PublishOwnerOnly ==
    [][\A id \in Served("publishProject"), body \in Bodies, user \in Users,
          fault \in Faults :
          publishProject(id, body, user, fault) =>
            ((id \in DOMAIN projects /\ projects[id].userId # user.ssid) =>
               /\ projects' = projects
               /\ Failed(http'))
      ]_vars

\* What every successful cloneProject does, whatever the fields of the
\* clone: one document is created, under a new _id, the stored documents
\* are left as they were, the clone is unpublished and tagged 'Forked from
\* <the source owner's username>', and it is what res.locals.clonedProject
\* holds.
CloneCreates(docId, rest(_, _)) ==
    LET new == DOMAIN projects' \ DOMAIN projects
        src == projects[docId]
    IN /\ Cardinality(new) = 1
       /\ \A i \in DOMAIN projects : projects'[i] = projects[i]
       /\ \A n \in new :
            LET clone == projects'[n] IN
            /\ clone._id = n
            /\ clone._id # src._id
            /\ clone.published = FALSE
            /\ clone.forked = <<"Forked from ", src.username>>
            /\ rest(clone, src)
            /\ http'.locals = <<[key |-> "clonedProject", value |-> clone]>>

\* C5 as stated: every other field of the clone equals the source's.
C5_CloneEqualsSource ==
    [][\A docId \in Served("cloneProject"), user \in Users :
          (cloneProject(docId, user, NoFault, NoFault) /\ Succeeded(http')) =>
            CloneCreates(docId,
                LAMBDA clone, src :
                    \A k \in {"project", "createdAt", "comments", "name",
                              "userId", "username"} : clone[k] = src[k])
      ]_vars

\* C5, amended: name and comments equal the source's; project is the
\* source's project with forked set to true; userId and username are the
\* ssid and username of the cloning session; createdAt is the time of the
\* clone.
C5_CloneOwnedCopy ==
    [][\A docId \in Served("cloneProject"), user \in Users :
          (cloneProject(docId, user, NoFault, NoFault) /\ Succeeded(http')) =>
            CloneCreates(docId,
                LAMBDA clone, src :
                    /\ clone.name = src.name
                    /\ clone.comments = src.comments
                    /\ DOMAIN clone.project = DOMAIN src.project \cup {"forked"}
                    /\ clone.project.forked = TRUE
                    /\ \A k \in DOMAIN src.project \ {"forked"} :
                         clone.project[k] = src.project[k]
                    /\ clone.userId = user.ssid
                    /\ clone.username = user.username
                    /\ clone.createdAt = now)
      ]_vars

\* C5's case: bob cloned, at time 1, a project alice published at time 0.
C5_Witness ==
    /\ http.op = "cloneProject"
    /\ Succeeded(http)
    /\ http.id \in DOMAIN projects
    /\ projects[http.id].username = "alice"
    /\ projects[http.id].createdAt = 0
    /\ projects[http.id].published
    /\ \E n \in DOMAIN projects :
         /\ http.locals = <<[key |-> "clonedProject", value |-> projects[n]]>>
         /\ projects[n].username = "bob"
         /\ projects[n].forked = <<"Forked from ", "alice">>
         /\ projects[n].createdAt = 1

\* C6: publishProject with an _id that is no ObjectId creates exactly one
\* document, published; publishProject with the _id of a stored document
\* creates none: it updates that document, which is then published and
\* holds the request's project (without _id and published), name and
\* comments; no other document changes.
C6_PublishCreatesThenUpdates ==
    [][\A id \in Served("publishProject"), body \in Bodies, user \in Users :
          publishProject(id, body, user, NoFault) =>
            LET expected ==
                  [k \in DOMAIN body.project \ {"_id", "published"} |->
                      body.project[k]]
            IN /\ \A i \in DOMAIN projects \ {id} : projects'[i] = projects[i]
               /\ id \in InvalidIds =>
                    /\ Cardinality(DOMAIN projects')
                         = Cardinality(DOMAIN projects) + 1
                    /\ \A n \in DOMAIN projects' \ DOMAIN projects :
                         /\ projects'[n].published = TRUE
                         /\ projects'[n]._id = n
                         /\ projects'[n].project = expected
                         /\ http'.locals = <<[key |-> "publishedProject",
                                              value |-> projects'[n]]>>
               /\ id \in DOMAIN projects =>
                    /\ DOMAIN projects' = DOMAIN projects
                    /\ projects'[id]._id = id
                    /\ projects'[id].published = TRUE
                    /\ projects'[id].project = expected
                    /\ projects'[id].name = body.name
                    /\ projects'[id].comments = body.comments
                    /\ http'.locals = <<[key |-> "publishedProject",
                                         value |-> projects'[id]]>>
      ]_vars

\* C6's case: document 1 was created by a publishProject without a valid
\* _id (the store numbered it, and it was never cloned), document 2 was
\* created after it, and then a publishProject with _id 1 updated document
\* 1 (its createdAt is later than document 2's); there are still two
\* documents.
C6_Witness ==
    /\ http.op = "publishProject"
    /\ Succeeded(http)
    /\ http.id = 1
    /\ DOMAIN projects = {1, 2}
    /\ projects[1].forked = <<>>
    /\ projects[1].published
    /\ projects[1].createdAt > projects[2].createdAt

\* C9: when a store call of a marketplace operation fails (cloneProject on
\* an _id that is not stored included), next is called exactly once, with
\* an error object that holds a log entry and a user-facing message in
\* which the error's text does not occur; res.locals is not set; and the
\* collection is unchanged.
C9_StoreFailure ==
    [][(http'.op # "none" /\ http'.failure # NoFault) =>
          /\ Len(http'.next) = 1
          /\ http'.next[1].isError
          /\ http'.next[1].log # <<>>
          /\ http'.next[1].message.err # <<>>
          /\ \A e \in Range(http'.failure) :
                e \notin Range(http'.next[1].message.err)
          /\ http'.locals = <<>>
          /\ projects' = projects
      ]_vars

\* C9's case: cloneProject on an ObjectId that is not stored, while the
\* collection holds a project.
C9_Witness ==
    /\ http.op = "cloneProject"
    /\ http.failure = <<NullTypeError>>
    /\ http.id \notin DOMAIN projects
    /\ Failed(http)
    /\ DOMAIN projects # {}

=============================================================================
